---- MODULE Spec2Model ----
(***************************************************************************)
(* A model of language_tool_python's process supervisor and query client   *)
(* (server.py, utils.py): one LanguageTool client object, the server       *)
(* processes it spawns, the process-wide registry of those processes, and  *)
(* the machine the client runs on (installed runtime/archive, ports taken  *)
(* by other programs, answers of the server).                              *)
(***************************************************************************)
EXTENDS Integers, Sequences, FiniteSets, TLC

VARIABLES
    install,                   \* what get_jar_info finds: "ok", "no_java", "no_dir", "no_jar"
    occupied,                  \* ports held by programs other than our servers
    procs,                     \* every Popen ever created: pid -> [port, out, state]
    RUNNING_SERVER_PROCESSES,  \* server.py:37, the process-wide list of Popen objects
    _remote,                   \* LanguageTool._remote
    _server,                   \* LanguageTool._server (NoServer = None)
    _port,                     \* LanguageTool._port
    _url,                      \* LanguageTool._url
    _consumer_thread,          \* LanguageTool._consumer_thread: pid whose stdout is drained
    _language,                 \* LanguageTool._language
    pc,                        \* position of the client's thread of control
    op,                        \* the API call in progress or last completed
    cont,                      \* where _start_server_on_free_port returns to
    arg,                       \* the language argument of the call in progress
    ret,                       \* outcome of the call: [status, exc, val]
    log,                       \* requests, terminations and spawns of the call, in order
    calls,                     \* number of API calls made after construction
    budget,                    \* num_tries of the last call of _query_server
    last,                      \* name of the step taken last
    text,                      \* utils.correct: the text argument
    matches,                   \* utils.correct: the matches argument
    result,                    \* utils.correct: [done, text], the string returned
    languages_requests,        \* history: languages queries sent by this client
    attempts,                  \* history: start attempts of the current port search
    caught,                    \* history: the exception the port search caught last
    tasks                      \* AsyncLanguageTool: the check coroutines of the event loop

cvars == <<text, matches, result>>
hvars == <<languages_requests, attempts, caught>>

vars == <<install, occupied, procs, RUNNING_SERVER_PROCESSES, _remote, _server,
          _port, _url, _consumer_thread, _language, pc, op, cont, arg, ret,
          log, calls, budget, last, text, matches, result,
          languages_requests, attempts, caught, tasks>>

---------------------------------------------------------------------------
(* Program constants. *)
_MIN_PORT == 8081
_MAX_PORT == 8999
DefaultNumTries == 2
LanguagesNumTries == 1
NoServer == 0

(* Bounds of the model. *)
MaxWindow == 1      \* ports _MIN_PORT .. _MIN_PORT+MaxWindow-1 may be taken by others
MaxCalls == 2       \* API calls made on the client after its construction
MaxTries == 2       \* largest attempt budget passed to _query_server
MaxLen == 2         \* longest text given to correct
MaxMatches == 2     \* longest list of matches given to correct
NumTasks == 2       \* check coroutines in flight on one AsyncLanguageTool

Ports == _MIN_PORT .. _MAX_PORT
Window == _MIN_PORT .. (_MIN_PORT + MaxWindow - 1)
Installs == {"ok", "no_java", "no_dir", "no_jar"}
Tags == {"en-US", "xx-ZZ"}
ServerLanguages == {"en", "en-US", "de", "de-DE"}

---------------------------------------------------------------------------
(* Exceptions: type, message, explicit cause (raise .. from e), and the    *)
(* attempt number of the request the cause came from.                      *)
Exc(type, msg, cause, at) == [type |-> type, msg |-> msg, cause |-> cause, at |-> at]
NoExc == Exc("none", "", "none", 0)

(* server.py:259: except ServerError (utils.py:38). *)
IsServerError(e) == e.type = "ServerError"

(* An entry of the log: a request (id = attempt number), a termination or *)
(* a spawn (id = pid).                                                     *)
Event(e, id, port, out) == [e |-> e, id |-> id, port |-> port, out |-> out]

(* Mutant: the URL names the first port of the range, whatever the port. *)
LocalUrl_FirstPort(port) == [host |-> "local", port |-> _MIN_PORT]
(* server.py:255: the base URL built from the selected port. *)
LocalUrl(port) == [host |-> "local", port |-> port]
RemoteUrl == [host |-> "remote", port |-> 0]
NoUrl == [host |-> "unset", port |-> 0]

(* The part of the state the supervisor's methods read and write. *)
World == [_remote |-> _remote, _server |-> _server, _port |-> _port, _url |-> _url,
          _consumer_thread |-> _consumer_thread, procs |-> procs,
          RUNNING_SERVER_PROCESSES |-> RUNNING_SERVER_PROCESSES, log |-> log]

Returned(w, val) == [w |-> w, exc |-> NoExc, val |-> val]
Raised(w, e) == [w |-> w, exc |-> e, val |-> "none"]

---------------------------------------------------------------------------
(* The machine. *)

(* What a freshly spawned server does on `port`: on a port held by another *)
(* program it fails to bind (stdout closes, stderr names the port); on a    *)
(* free port it reports the port ("ok"), reports another port ("mismatch"), *)
(* or dies with stderr naming no port ("no_port") or another port           *)
(* ("stderr_other").                                                        *)
SpawnOutcomes(port) ==
    IF port \in occupied THEN {"bind_fail"}
    ELSE {"ok", "mismatch", "no_port", "stderr_other"}

(* The choices _start_local_server leaves to the machine: none when no     *)
(* process is spawned.                                                      *)
StartOutcomes(w) ==
    IF install # "ok" THEN {"none"} ELSE SpawnOutcomes(w._port)

Running(w, pid) == pid \in DOMAIN w.procs /\ w.procs[pid].state = "running"

(* A server of ours that listens on `port`. *)
Listening(w, port) ==
    \E pid \in DOMAIN w.procs :
        /\ w.procs[pid].state = "running"
        /\ w.procs[pid].out = "ok"
        /\ w.procs[pid].port = port

(* What a GET to the client's URL can end in: a transport failure always;  *)
(* a JSON body or a malformed body only when something answers there.       *)
Responses(w) ==
    IF \/ w._url.host = "remote"
       \/ w._url.host = "local" /\ (Listening(w, w._url.port) \/ w._url.port \in occupied)
    THEN {"ok", "badjson", "transport"}
    ELSE {"transport"}

(* Popen.terminate() followed by communicate(): the process is gone. *)
Terminated(ps, pid) == [ps EXCEPT ![pid].state = "exited"]

(* The port the stderr of a dead server names, NoServer (0) when none. *)
StderrPort(p) ==
    CASE p.out = "bind_fail" -> p.port
      [] p.out = "stderr_other" -> p.port + 1
      [] OTHER -> 0

---------------------------------------------------------------------------
(* Process supervisor (server.py:253-342). *)

(* server.py:326-327 *)
_server_is_alive(w) == w._server # NoServer /\ Running(w, w._server)

(* Mutant: terminate clears the handle and leaves the process running. *)
_terminate_server_NoKill(w) ==
    IF w._server = NoServer
    THEN Raised(w, Exc("AttributeError", "NoneType has no terminate", "none", 0))
    ELSE Returned(
            [w EXCEPT !._server = NoServer,
                      !.log = Append(w.log, Event("terminate", w._server, w._port, "none"))],
            StderrPort(w.procs[w._server]))

(* Mutant: terminate leaves the handle in place. *)
_terminate_server_KeepsHandle(w) ==
    IF w._server = NoServer
    THEN Raised(w, Exc("AttributeError", "NoneType has no terminate", "none", 0))
    ELSE Returned(
            [w EXCEPT !.procs = Terminated(w.procs, w._server),
                      !.log = Append(w.log, Event("terminate", w._server, w._port, "none"))],
            StderrPort(w.procs[w._server]))

(* server.py:329-342.  self._server.terminate() on a cleared handle raises *)
(* AttributeError, which contextlib.suppress(OSError) does not suppress.    *)
_terminate_server(w) ==
    IF w._server = NoServer
    THEN Raised(w, Exc("AttributeError", "NoneType has no terminate", "none", 0))
    ELSE Returned(
            [w EXCEPT !.procs = Terminated(w.procs, w._server),
                      !._server = NoServer,
                      !.log = Append(w.log, Event("terminate", w._server, w._port, "none"))],
            StderrPort(w.procs[w._server]))

(* Mutant: the spawned process is not appended to the registry. *)
Popen_Unregistered(w, out) ==
    LET pid == Len(w.procs) + 1 IN
    [w EXCEPT !.procs = Append(w.procs, [port |-> w._port, out |-> out, state |-> "running"]),
              !._server = pid,
              !.log = Append(w.log, Event("spawn", pid, w._port, out))]

(* server.py:285-294: subprocess.Popen and the append to the registry. *)
Popen(w, out) ==
    LET pid == Len(w.procs) + 1 IN
    [w EXCEPT !.procs = Append(w.procs, [port |-> w._port, out |-> out, state |-> "running"]),
              !._server = pid,
              !.RUNNING_SERVER_PROCESSES = Append(w.RUNNING_SERVER_PROCESSES, pid),
              !.log = Append(w.log, Event("spawn", pid, w._port, out))]

(* server.py:316-324: the drain thread when a handle is held, else ServerError. *)
StartConsumer(w) ==
    IF w._server # NoServer
    THEN Returned([w EXCEPT !._consumer_thread = w._server], "none")
    ELSE Raised(w, Exc("ServerError", "Server running", "none", 0))

(* Mutant: any port line on stdout counts as the requested port. *)
ReadPort_AnyPortLine(w, out) ==
    CASE out \in {"ok", "mismatch"} -> StartConsumer(w)
      [] OTHER ->
            LET t == _terminate_server(w) IN
            IF t.val = w._port THEN StartConsumer(t.w)
            ELSE Raised(t.w, Exc("LanguageToolError", "err_msg", "none", 0))

(* server.py:296-314: scan stdout for the port line; on a closed stdout    *)
(* terminate and look for the port in stderr.                               *)
ReadPort(w, out) ==
    CASE out = "ok" -> StartConsumer(w)
      [] out = "mismatch" ->
            Raised(w, Exc("LanguageToolError", "requested port, but got", "none", 0))
      [] OTHER ->
            LET t == _terminate_server(w) IN
            IF t.val = w._port THEN StartConsumer(t.w)
            ELSE Raised(t.w, Exc("LanguageToolError", "err_msg", "none", 0))

(* server.py:265-324, with get_server_cmd/get_jar_info (utils.py:97-139):  *)
(* JavaError and FileNotFoundError propagate, PathError is caught.          *)
_start_local_server(w, out) ==
    CASE install = "no_java" -> Raised(w, Exc("JavaError", "can't find Java", "none", 0))
      [] install = "no_dir" -> Raised(w, Exc("FileNotFoundError", "LanguageTool not found", "none", 0))
      [] install = "no_jar" -> StartConsumer(w)
      [] OTHER -> ReadPort(Popen(w, out), out)

(* Mutant: the last port of the range is advanced from, too. *)
CanAdvance_Inclusive(port) == _MIN_PORT <= port /\ port <= _MAX_PORT
(* server.py:260 *)
CanAdvance(port) == _MIN_PORT <= port /\ port < _MAX_PORT
(* Mutant: the search skips a port. *)
NextPort_Skip(port) == port + 2
(* server.py:261 *)
NextPort(port) == port + 1

---------------------------------------------------------------------------
(* Query client (server.py:232-251). *)

NoVal == [kind |-> "none", attempt |-> 0]

(* Mutant: the handler also catches the error raised for a malformed body. *)
IsTransportFailure_AnyFailure(r) == r # "ok"
(* server.py:246: the exceptions the handler of _query_server catches. *)
IsTransportFailure(r) == r = "transport"
(* Mutant: the handler never restarts the server. *)
ManagesLocalServer_Never(w) == FALSE
(* server.py:247 *)
ManagesLocalServer(w) == w._remote = FALSE
(* server.py:250 *)
Exhausted(n, num_tries) == n + 1 >= num_tries

(* Mutant: a failure of the restart is swallowed and the loop goes on. *)
Restart_IgnoreFailure(w) ==
    LET t == _terminate_server(w) IN
    IF t.exc # NoExc THEN {Returned(t.w, "none")}
    ELSE {Returned(_start_local_server(t.w, out).w, "none") : out \in StartOutcomes(t.w)}

(* server.py:248-249: terminate, then start; an exception of either one    *)
(* leaves the handler.  The set of all outcomes.                            *)
Restart(w) ==
    LET t == _terminate_server(w) IN
    IF t.exc # NoExc THEN {Raised(t.w, t.exc)}
    ELSE {_start_local_server(t.w, out) : out \in StartOutcomes(t.w)}

(* server.py:246-251: the handler of a transport failure on attempt n      *)
(* (0-based): the outcomes that leave the call, and the worlds from which   *)
(* the loop goes on.                                                        *)
Handled(w, n, num_tries) ==
    LET rs == IF ManagesLocalServer(w) THEN Restart(w) ELSE {Returned(w, "none")} IN
    [ left |-> {Raised(r.w, r.exc) : r \in {x \in rs : x.exc # NoExc}}
               \cup IF Exhausted(n, num_tries)
                    THEN {Raised(r.w, Exc("LanguageToolError", "url: e", "IOError", n + 1))
                             : r \in {x \in rs : x.exc = NoExc}}
                    ELSE {},
      goes |-> IF Exhausted(n, num_tries) THEN {}
               ELSE {r.w : r \in {x \in rs : x.exc = NoExc}} ]

(* server.py:235-251: attempts n, n+1, .. of one call; the set of all its  *)
(* outcomes [w, exc, val].  A loop that runs out returns None.              *)
RECURSIVE QueryFrom(_, _, _, _)
QueryFrom(w, kind, n, num_tries) ==
    IF n >= num_tries THEN {Returned(w, NoVal)}
    ELSE UNION {
        LET w1 == [w EXCEPT !.log = Append(w.log, Event("request", n + 1, w._url.port, r))] IN
        IF r = "ok" THEN {Returned(w1, [kind |-> kind, attempt |-> n + 1])}
        ELSE IF IsTransportFailure(r)
        THEN LET h == Handled(w1, n, num_tries) IN
             h.left \cup UNION {QueryFrom(w2, kind, n + 1, num_tries) : w2 \in h.goes}
        ELSE {Raised(w1, Exc("LanguageToolError", "response body", "JSONDecodeError", n + 1))}
        : r \in Responses(w) }

_query_server(w, kind, num_tries) == QueryFrom(w, kind, 0, num_tries)

---------------------------------------------------------------------------
(* Language tags.  LanguageTag validates a tag against the set returned by *)
(* _get_languages (server.py:212-221).                                      *)
Languages == ServerLanguages \cup {"auto"}
(* Mutant: every tag is accepted. *)
LanguageTag_AcceptsAll(tag, languages) == TRUE
LanguageTag(tag, languages) == tag \in languages

---------------------------------------------------------------------------
(* Result model: utils.correct (utils.py:54-69).  A string is a sequence   *)
(* of characters; a Match has offset, errorLength and replacements.         *)

Chars == {"a", "b"}
Texts == UNION {[1 .. n -> Chars] : n \in 0 .. MaxLen}
Replacements == { <<>>, << <<"b">> >>, << <<"a", "b">>, <<"a">> >> }
Matches == [offset : 0 .. MaxLen, errorLength : 0 .. MaxLen, replacements : Replacements]
MatchLists == UNION {[1 .. n -> Matches] : n \in 0 .. MaxMatches}
NoResult == [done |-> FALSE, text |-> <<>>]

(* list(s): the list of the one-character strings of s. *)
ListOf(s) == [i \in 1 .. Len(s) |-> <<s[i]>>]

(* Mutant: the pieces are joined with a separator. *)
RECURSIVE Join_Separator(_)
Join_Separator(l) ==
    IF l = <<>> THEN <<>>
    ELSE IF Len(l) = 1 THEN Head(l)
    ELSE Head(l) \o <<" ">> \o Join_Separator(Tail(l))

(* ''.join(l) *)
RECURSIVE Join(_)
Join(l) == IF l = <<>> THEN <<>> ELSE Head(l) \o Join(Tail(l))

(* A slice bound i of a list of length n, as Python normalises it. *)
SliceIndex(i, n) ==
    IF i < 0 THEN (IF i + n < 0 THEN 0 ELSE i + n)
    ELSE (IF i > n THEN n ELSE i)

(* l[a:b] *)
Slice(l, a, b) ==
    LET lo == SliceIndex(a, Len(l))
        hi == SliceIndex(b, Len(l)) IN
    IF lo < hi THEN SubSeq(l, lo + 1, hi) ELSE <<>>

(* l[a:b] = new *)
SetSlice(l, a, b, new) ==
    LET lo == SliceIndex(a, Len(l))
        hi == SliceIndex(b, Len(l))
        to == IF hi < lo THEN lo ELSE hi IN
    SubSeq(l, 1, lo) \o new \o SubSeq(l, to + 1, Len(l))

(* utils.py:57 *)
HasReplacement(m) == m.replacements # <<>>
WithReplacements(ms) == SelectSeq(ms, HasReplacement)

(* utils.py:58-59 *)
Errors(ltext, ms) ==
    [n \in 1 .. Len(ms) |-> Slice(ltext, ms[n].offset, ms[n].offset + ms[n].errorLength)]

(* Mutant: the running offset is never updated. *)
Delta_None(repl, error) == 0
(* utils.py:68 *)
Delta(repl, error) == Len(repl) - Len(error)

(* Mutant: the recomputed span is not compared with the captured text. *)
Stale_Never(ltext, frompos, topos, error) == FALSE
(* utils.py:64 *)
Stale(ltext, frompos, topos, error) == Slice(ltext, frompos, topos) # error

(* utils.py:61-68: the loop, from match n on. *)
RECURSIVE ApplyFrom(_, _, _, _, _)
ApplyFrom(ltext, ms, errors, n, correct_offset) ==
    IF n > Len(ms) THEN ltext
    ELSE LET frompos == correct_offset + ms[n].offset
             topos == correct_offset + ms[n].offset + ms[n].errorLength
             repl == ms[n].replacements[1] IN
         IF Stale(ltext, frompos, topos, errors[n])
         THEN ApplyFrom(ltext, ms, errors, n + 1, correct_offset)
         ELSE ApplyFrom(SetSlice(ltext, frompos, topos, ListOf(repl)), ms, errors, n + 1,
                        correct_offset + Delta(repl, errors[n]))

(* Mutant: the error texts are captured before the matches are filtered. *)
correct_ErrorsBeforeFilter(t, ms) ==
    LET ltext == ListOf(t)
        errors == Errors(ltext, ms)
        kept == WithReplacements(ms) IN
    Join(ApplyFrom(ltext, kept, errors, 1, 0))

(* utils.py:54-69 *)
correct(t, ms) ==
    LET ltext == ListOf(t)
        kept == WithReplacements(ms)
        errors == Errors(ltext, kept) IN
    Join(ApplyFrom(ltext, kept, errors, 1, 0))

---------------------------------------------------------------------------
(* The coroutines of AsyncLanguageTool.check (server.py:385-412): where    *)
(* each one stands (not started, suspended in `await get`, ended), its      *)
(* attempt n, the process its request in flight was sent to (NoServer when  *)
(* nothing listened), how it ended, and as history the processes it spawned *)
(* and the terminations it did, each with the target of the request whose   *)
(* failure caused it.                                                       *)
Tasks == 1 .. NumTasks
NoTask == [pc |-> "idle", n |-> 0, target |-> NoServer, status |-> "none", exc |-> NoExc,
           spawned |-> {}, killed |-> {}]
NoTasks == [i \in Tasks |-> NoTask]

---------------------------------------------------------------------------
NoRet == [status |-> "none", exc |-> NoExc, val |-> NoVal]

TypeOK ==
    /\ install \in Installs
    /\ occupied \subseteq Ports
    /\ _remote \in BOOLEAN
    /\ _server \in 0 .. Len(procs)
    /\ _port \in Ports
    /\ pc \in {"new", "search", "languages", "langquery", "idle", "failed", "exited"}
    /\ calls \in 0 .. MaxCalls
    /\ text \in Texts
    /\ Len(matches) <= MaxMatches
    /\ \A n \in 1 .. Len(matches) : matches[n] \in Matches
    /\ result.done \in BOOLEAN
    /\ languages_requests \in 0 .. MaxCalls + 1
    /\ attempts \in 0 .. _MAX_PORT - _MIN_PORT + 1
    /\ DOMAIN tasks = Tasks
    /\ \A i \in Tasks : tasks[i].pc \in {"idle", "awaiting", "done"}

Init ==
    /\ install \in Installs
    /\ occupied \in (SUBSET Window) \cup {Ports}
    /\ procs = <<>>
    /\ RUNNING_SERVER_PROCESSES = <<>>
    /\ _remote = FALSE
    /\ _server = NoServer
    /\ _port = _MIN_PORT
    /\ _url = NoUrl
    /\ _consumer_thread = NoServer
    /\ _language = "none"
    /\ pc = "new"
    /\ op = "none"
    /\ cont = "none"
    /\ arg = "none"
    /\ ret = NoRet
    /\ log = <<>>
    /\ calls = 0
    /\ budget = 0
    /\ last = "none"
    /\ text = <<>>
    /\ matches = <<>>
    /\ result = NoResult
    /\ languages_requests = 0
    /\ attempts = 0
    /\ caught = NoExc
    /\ tasks = NoTasks

(* The number of requests a log holds. *)
IsRequest(ev) == ev.e = "request"
Sent(l) == Len(SelectSeq(l, IsRequest))

(* Write a world back to the variables. *)
Store(w) ==
    /\ _remote' = w._remote
    /\ _server' = w._server
    /\ _port' = w._port
    /\ _url' = w._url
    /\ _consumer_thread' = w._consumer_thread
    /\ procs' = w.procs
    /\ RUNNING_SERVER_PROCESSES' = w.RUNNING_SERVER_PROCESSES
    /\ log' = w.log

(* An exception leaves the API call: __init__ yields no client. *)
Raise(e) ==
    /\ ret' = [status |-> "raised", exc |-> e, val |-> NoVal]
    /\ pc' = IF op = "init" THEN "failed" ELSE "idle"

(* server.py:52-80: LanguageTool(language, remote_server). *)
Construct(remote, language) ==
    /\ pc = "new"
    /\ op' = "init"
    /\ arg' = language
    /\ ret' = [NoRet EXCEPT !.status = "running"]
    /\ last' = "Construct"
    /\ IF remote
       THEN /\ _remote' = TRUE
            /\ _url' = RemoteUrl
            /\ pc' = "languages"
            /\ cont' = cont
       ELSE /\ UNCHANGED <<_remote, _url>>
            /\ IF ~_server_is_alive(World)
               THEN pc' = "search" /\ cont' = "languages"
               ELSE pc' = "languages" /\ cont' = cont
    /\ UNCHANGED <<install, occupied, procs, RUNNING_SERVER_PROCESSES, _server, _port,
                   _consumer_thread, _language, log, calls, budget>>
    /\ UNCHANGED <<cvars, tasks>>
    /\ attempts' = 0
    /\ caught' = NoExc
    /\ UNCHANGED languages_requests

(* server.py:253-263: one turn of the loop of _start_server_on_free_port. *)
SearchStep ==
    /\ pc = "search"
    /\ last' = "SearchStep"
    /\ LET w0 == [World EXCEPT !._url = LocalUrl(_port)] IN
       \E out \in StartOutcomes(w0) :
          LET r == _start_local_server(w0, out) IN
          IF r.exc = NoExc
          THEN /\ Store(r.w)
               /\ pc' = cont
               /\ UNCHANGED <<ret, caught>>
          ELSE IF IsServerError(r.exc) /\ CanAdvance(r.w._port)
          THEN /\ Store([r.w EXCEPT !._port = NextPort(r.w._port)])
               /\ caught' = r.exc
               /\ UNCHANGED <<pc, ret>>
          ELSE /\ Store(r.w)
               /\ Raise(r.exc)
               /\ UNCHANGED caught
    /\ UNCHANGED <<install, occupied, _language, op, cont, arg, calls, budget>>
    /\ UNCHANGED <<cvars, tasks>>
    /\ attempts' = attempts + 1
    /\ UNCHANGED languages_requests

(* Mutant: a server is started whether or not the client is remote. *)
NeedsStart_IgnoresRemote(w) == ~_server_is_alive(w)

(* server.py:223-226: _start_server_if_needed, first statement of         *)
(* _get_languages (server.py:214).                                          *)
NeedsStart(w) == ~_server_is_alive(w) /\ w._remote = FALSE

StartServerIfNeeded ==
    /\ pc = "languages"
    /\ last' = "StartServerIfNeeded"
    /\ IF NeedsStart(World)
       THEN pc' = "search" /\ cont' = "langquery"
       ELSE pc' = "langquery" /\ cont' = cont
    /\ UNCHANGED <<install, occupied, procs, RUNNING_SERVER_PROCESSES, _remote, _server,
                   _port, _url, _consumer_thread, _language, op, arg, ret, log, calls, budget>>
    /\ UNCHANGED <<cvars, tasks>>
    /\ attempts' = 0
    /\ caught' = NoExc
    /\ UNCHANGED languages_requests

(* server.py:215-221 and the LanguageTag built from its result             *)
(* (server.py:89, 126): the languages query, sent with num_tries=1.         *)
LangQuery ==
    /\ pc = "langquery"
    /\ last' = "LangQuery"
    /\ budget' = LanguagesNumTries
    /\ \E r \in _query_server(World, "languages", LanguagesNumTries) :
          /\ Store(r.w)
          /\ languages_requests' = languages_requests + Sent(r.w.log) - Sent(log)
          /\ IF r.exc # NoExc
             THEN Raise(r.exc) /\ UNCHANGED _language
             ELSE IF ~LanguageTag(arg, Languages)
             THEN Raise(Exc("ValueError", "unsupported language", "none", 0))
                  /\ UNCHANGED _language
             ELSE /\ _language' = arg
                  /\ pc' = "idle"
                  /\ ret' = [status |-> "returned", exc |-> NoExc, val |-> r.val]
    /\ UNCHANGED <<install, occupied, op, cont, arg, calls>>
    /\ UNCHANGED <<cvars, tasks>>
    /\ UNCHANGED <<attempts, caught>>

(* One call of _query_server from an idle client. *)
Call(name, kind, num_tries) ==
    /\ pc = "idle"
    /\ calls < MaxCalls
    /\ calls' = calls + 1
    /\ op' = name
    /\ last' = name
    /\ budget' = num_tries
    /\ \E r \in _query_server([World EXCEPT !.log = <<>>], kind, num_tries) :
          /\ Store(r.w)
          /\ ret' = [status |-> IF r.exc = NoExc THEN "returned" ELSE "raised",
                     exc |-> r.exc, val |-> IF r.exc = NoExc THEN r.val ELSE NoVal]
    /\ UNCHANGED <<install, occupied, _language, pc, cont, arg>>
    /\ UNCHANGED <<cvars, tasks>>
    /\ UNCHANGED hvars

(* server.py:146-151: check(text), with the default num_tries. *)
Check == Call("check", "check", DefaultNumTries)

(* server.py:232: _query_server called with an attempt budget of its own. *)
Query(num_tries) == Call("query", "check", num_tries)

(* server.py:124-128: the language setter. *)
SetLanguage(language) ==
    /\ pc = "idle"
    /\ calls < MaxCalls
    /\ calls' = calls + 1
    /\ op' = "language"
    /\ arg' = language
    /\ ret' = [NoRet EXCEPT !.status = "running"]
    /\ log' = <<>>
    /\ pc' = "languages"
    /\ last' = "SetLanguage"
    /\ UNCHANGED <<install, occupied, procs, RUNNING_SERVER_PROCESSES, _remote, _server,
                   _port, _url, _consumer_thread, _language, cont, budget>>
    /\ UNCHANGED <<cvars, tasks>>
    /\ UNCHANGED hvars

(* server.py:111-117: close(), also run by __exit__ and by __del__ (which  *)
(* Python runs on an object whose __init__ raised, too).                    *)
Close ==
    /\ pc \in {"idle", "failed"}
    /\ calls < MaxCalls
    /\ calls' = calls + 1
    /\ op' = "close"
    /\ last' = "Close"
    /\ LET w0 == [World EXCEPT !.log = <<>>]
           r == IF _server_is_alive(w0) THEN _terminate_server(w0) ELSE Returned(w0, "none") IN
       /\ Store(r.w)
       /\ ret' = [status |-> IF r.exc = NoExc THEN "returned" ELSE "raised",
                  exc |-> r.exc, val |-> NoVal]
    /\ UNCHANGED <<install, occupied, _language, pc, cont, arg, budget>>
    /\ UNCHANGED <<cvars, tasks>>
    /\ UNCHANGED hvars

(* server.py:432-436: the atexit hook. *)
TerminateAll(ps, registry) ==
    LET targets == {registry[i] : i \in DOMAIN registry} IN
    [pid \in DOMAIN ps |->
        IF pid \in targets THEN [ps[pid] EXCEPT !.state = "exited"] ELSE ps[pid]]

terminate_server ==
    /\ pc \in {"new", "idle", "failed"}
    /\ pc' = "exited"
    /\ last' = "terminate_server"
    /\ procs' = TerminateAll(procs, RUNNING_SERVER_PROCESSES)
    /\ UNCHANGED <<install, occupied, RUNNING_SERVER_PROCESSES, _remote, _server, _port,
                   _url, _consumer_thread, _language, op, cont, arg, ret, log, calls, budget>>
    /\ UNCHANGED <<cvars, tasks>>
    /\ UNCHANGED hvars

(* The machine: a server process dies by itself. *)
ProcExit(pid) ==
    /\ pc # "exited"
    /\ Running(World, pid)
    /\ procs' = Terminated(procs, pid)
    /\ last' = "ProcExit"
    /\ UNCHANGED <<install, occupied, RUNNING_SERVER_PROCESSES, _remote, _server, _port,
                   _url, _consumer_thread, _language, pc, op, cont, arg, ret, log, calls, budget>>
    /\ UNCHANGED <<cvars, tasks>>
    /\ UNCHANGED hvars

(* The machine: another program takes a port no server of ours listens on. *)
Occupy(port) ==
    /\ pc # "exited"
    /\ port \notin occupied
    /\ ~Listening(World, port)
    /\ occupied' = occupied \cup {port}
    /\ last' = "Occupy"
    /\ UNCHANGED <<install, procs, RUNNING_SERVER_PROCESSES, _remote, _server, _port,
                   _url, _consumer_thread, _language, pc, op, cont, arg, ret, log, calls, budget>>
    /\ UNCHANGED <<cvars, tasks>>
    /\ UNCHANGED hvars

Next ==
    \/ \E remote \in BOOLEAN, language \in Tags : Construct(remote, language)
    \/ SearchStep
    \/ StartServerIfNeeded
    \/ LangQuery
    \/ Check
    \/ \E num_tries \in 1 .. MaxTries : Query(num_tries)
    \/ \E language \in Tags : SetLanguage(language)
    \/ Close
    \/ terminate_server
    \/ \E pid \in DOMAIN procs : ProcExit(pid)
    \/ \E port \in Window : Occupy(port)

Spec == Init /\ [][Next]_vars

---------------------------------------------------------------------------
(* utils.correct on its own: any text and any list of matches (those that  *)
(* check returned, a part of them, or others), before any client exists.    *)
InitCorrect ==
    /\ install = "ok"
    /\ occupied = {}
    /\ procs = <<>>
    /\ RUNNING_SERVER_PROCESSES = <<>>
    /\ _remote = FALSE
    /\ _server = NoServer
    /\ _port = _MIN_PORT
    /\ _url = NoUrl
    /\ _consumer_thread = NoServer
    /\ _language = "none"
    /\ pc = "new"
    /\ op = "none"
    /\ cont = "none"
    /\ arg = "none"
    /\ ret = NoRet
    /\ log = <<>>
    /\ calls = 0
    /\ budget = 0
    /\ last = "none"
    /\ text \in Texts
    /\ matches \in MatchLists
    /\ result = NoResult
    /\ languages_requests = 0
    /\ attempts = 0
    /\ caught = NoExc
    /\ tasks = NoTasks

(* utils.py:54-69: correct(text, matches). *)
Correct ==
    /\ ~result.done
    /\ result' = [done |-> TRUE, text |-> correct(text, matches)]
    /\ last' = "Correct"
    /\ UNCHANGED <<install, occupied, procs, RUNNING_SERVER_PROCESSES, _remote, _server,
                   _port, _url, _consumer_thread, _language, pc, op, cont, arg, ret,
                   log, calls, budget, text, matches>>
    /\ UNCHANGED <<hvars, tasks>>

NextCorrect == Correct

SpecCorrect == InitCorrect /\ [][NextCorrect]_vars

---------------------------------------------------------------------------
(* AsyncLanguageTool (server.py:344-412): check coroutines on one event    *)
(* loop, on a local client whose construction has succeeded on port 8081.   *)
InitAsync ==
    /\ install = "ok"
    /\ occupied = {}
    /\ procs = <<[port |-> _MIN_PORT, out |-> "ok", state |-> "running"]>>
    /\ RUNNING_SERVER_PROCESSES = <<1>>
    /\ _remote = FALSE
    /\ _server = 1
    /\ _port = _MIN_PORT
    /\ _url = LocalUrl(_MIN_PORT)
    /\ _consumer_thread = 1
    /\ _language \in Tags \cap Languages
    /\ pc = "idle"
    /\ op = "init"
    /\ cont = "languages"
    /\ arg = _language
    /\ ret = [status |-> "returned", exc |-> NoExc,
              val |-> [kind |-> "languages", attempt |-> 1]]
    /\ log = <<Event("spawn", 1, _MIN_PORT, "ok"), Event("request", 1, _MIN_PORT, "ok")>>
    /\ calls = 0
    /\ budget = LanguagesNumTries
    /\ last = "LangQuery"
    /\ text = <<>>
    /\ matches = <<>>
    /\ result = NoResult
    /\ languages_requests = 1
    /\ attempts = 0
    /\ caught = NoExc
    /\ tasks = NoTasks

(* The servers of this client that answer at the client's URL. *)
Listeners(w) ==
    {pid \in DOMAIN w.procs : /\ w.procs[pid].state = "running"
                              /\ w.procs[pid].out = "ok"
                              /\ w.procs[pid].port = w._url.port}

(* server.py:398: where a GET sent now goes. *)
Targets(w) == IF Listeners(w) = {} THEN {NoServer} ELSE Listeners(w)

(* server.py:398-400, 406: what the awaited GET ends in: a request sent to *)
(* a process that is gone, or to nothing, fails at transport level.          *)
AsyncResponses(w, target) ==
    IF target # NoServer /\ w.procs[target].state = "running"
    THEN {"ok", "badjson", "transport"}
    ELSE {"transport"}

(* The frame of a step of the event loop. *)
AsyncFrame ==
    UNCHANGED <<install, occupied, _language, pc, op, cont, arg, ret, calls, budget,
                cvars, hvars>>

(* A coroutine ends by raising e. *)
TaskRaised(t, e) == [t EXCEPT !.pc = "done", !.status = "raised", !.exc = e]

(* server.py:385-398: check() is awaited: the coroutine runs up to its     *)
(* first `await self._session.get`.                                          *)
AsyncCheck(i) ==
    /\ tasks[i].pc = "idle"
    /\ \E target \in Targets(World) :
          tasks' = [tasks EXCEPT ![i] = [@ EXCEPT !.pc = "awaiting", !.n = 0,
                                                  !.target = target]]
    /\ last' = "AsyncCheck"
    /\ UNCHANGED <<procs, RUNNING_SERVER_PROCESSES, _remote, _server, _port, _url,
                   _consumer_thread, log>>
    /\ AsyncFrame

(* server.py:398-412: the event loop resumes coroutine i with the outcome  *)
(* of its GET and runs it to its end or to its next `await get`; the        *)
(* failure handler has no await, so it runs without interleaving.  On an    *)
(* answer, httpx's Response.json() returns the decoded body, which is not   *)
(* awaitable: `await response.json()` raises TypeError (server.py:400).      *)
AsyncResume(i) ==
    /\ tasks[i].pc = "awaiting"
    /\ last' = "AsyncResume"
    /\ LET t == tasks[i]
           w == World IN
       \E r \in AsyncResponses(w, t.target) :
          IF r = "ok"
          THEN /\ tasks' = [tasks EXCEPT ![i] =
                              TaskRaised(t, Exc("TypeError", "can't be used in 'await'", "none", t.n + 1))]
               /\ Store(w)
          ELSE IF ~IsTransportFailure(r)
          THEN /\ tasks' = [tasks EXCEPT ![i] =
                              TaskRaised(t, Exc("LanguageToolError", "response body",
                                                "JSONDecodeError", t.n + 1))]
               /\ Store(w)
          ELSE LET h == Handled(w, t.n, DefaultNumTries)
                   Did(w2) == [t EXCEPT
                       !.spawned = @ \cup (Len(w.procs) + 1 .. Len(w2.procs)),
                       !.killed = @ \cup IF Len(w2.log) > Len(w.log)
                                         THEN {[pid |-> w._server, target |-> t.target]}
                                         ELSE {}] IN
               \/ \E o \in h.left :
                     /\ tasks' = [tasks EXCEPT ![i] = TaskRaised(Did(o.w), o.exc)]
                     /\ Store(o.w)
               \/ \E w2 \in h.goes :
                     \E target \in Targets(w2) :
                        /\ tasks' = [tasks EXCEPT ![i] =
                                       [Did(w2) EXCEPT !.n = t.n + 1, !.target = target]]
                        /\ Store(w2)
    /\ AsyncFrame

NextAsync ==
    \/ \E i \in Tasks : AsyncCheck(i)
    \/ \E i \in Tasks : AsyncResume(i)
    \/ \E pid \in DOMAIN procs : ProcExit(pid)

SpecAsync == InitAsync /\ [][NextAsync]_vars

---------------------------------------------------------------------------
(* Properties. *)

Requests(l) == {i \in DOMAIN l : l[i].e = "request"}
Terminations(l) == {i \in DOMAIN l : l[i].e = "terminate"}
Spawns(l) == {i \in DOMAIN l : l[i].e = "spawn"}

(* A call of _query_server has just ended: check, a direct call, or the    *)
(* languages query.                                                         *)
QueryEnded == last \in {"check", "query", "LangQuery"}

(* C1: local client, check with the default budget of 2: when the first    *)
(* request fails at transport level and the second succeeds, the server is  *)
(* terminated once and spawned once, both between the two requests, and     *)
(* check returns the result of the second request.                          *)
C1_RestartBetweenRequests ==
    (last = "check" /\ ~_remote) =>
        \A i, j \in Requests(log) :
            (log[i].id = 1 /\ log[i].out = "transport" /\ log[j].id = 2 /\ log[j].out = "ok") =>
                /\ Cardinality(Terminations(log)) = 1
                /\ Cardinality(Spawns(log)) = 1
                /\ \A t \in Terminations(log), sp \in Spawns(log) :
                      i < t /\ t < sp /\ sp < j /\ log[sp].out = "ok"
                /\ Cardinality(Requests(log)) = 2
                /\ ret.status = "returned"
                /\ ret.val = [kind |-> "check", attempt |-> 2]

C1_Witness ==
    /\ last = "check" /\ ~_remote
    /\ Len(log) = 4
    /\ log[1].e = "request" /\ log[1].out = "transport"
    /\ log[2].e = "terminate" /\ log[3].e = "spawn"
    /\ log[4].e = "request" /\ log[4].out = "ok"
    /\ ret.status = "returned"

(* C2: in one check call of a local client (budget 2) the server is        *)
(* terminated at most once and restarted at most once, and every restart is *)
(* followed by a resend of the request.                                     *)
C2_AtMostOneRestart ==
    (last = "check" /\ ~_remote) =>
        /\ Cardinality(Terminations(log)) <= 1
        /\ Cardinality(Spawns(log)) <= 1
        /\ \A sp \in Spawns(log) : \E r \in Requests(log) : r > sp

(* C3: a query with budget n sends at most n requests; when all n fail at  *)
(* transport level the call raises a LanguageToolError whose cause is the   *)
(* transport exception of the last request, and returns no result.          *)
C3_BudgetExhausted ==
    QueryEnded =>
        /\ Cardinality(Requests(log)) <= budget
        /\ ( /\ Cardinality(Requests(log)) = budget
             /\ \A i \in Requests(log) : log[i].out = "transport" )
           => /\ ret.status = "raised"
              /\ ret.exc = Exc("LanguageToolError", "url: e", "IOError", budget)

(* C4: a request answered with a malformed body is the last thing the call *)
(* does: no request, termination or spawn follows it, and the call raises a *)
(* LanguageToolError carrying the body, on whichever attempt it happens.    *)
C4_DecodeErrorNotRetried ==
    QueryEnded =>
        \A i \in Requests(log) :
            log[i].out = "badjson" =>
                /\ i = Len(log)
                /\ ret.status = "raised"
                /\ ret.exc = Exc("LanguageToolError", "response body", "JSONDecodeError", log[i].id)

C4_Witness ==
    /\ last = "check" /\ ~_remote
    /\ Len(log) = 4
    /\ log[1].out = "transport"
    /\ log[4].e = "request" /\ log[4].id = 2 /\ log[4].out = "badjson"
    /\ ret.status = "raised"

LastSpawnOut == IF Spawns(log) = {} THEN "none"
                ELSE log[CHOOSE i \in Spawns(log) : \A k \in Spawns(log) : k <= i].out

(* C5: when the port search of a construction ends, the client holds a     *)
(* live server bound to its port, the base URL names that port, the port is *)
(* free of other programs and every port below it, from 8081 on, is taken;  *)
(* with servers that only ever fail to bind, the search fails at 8999 only. *)
C5_PortSearch ==
    (last = "SearchStep" /\ op = "init") =>
        /\ pc \in {"languages", "langquery"} =>
              /\ _server_is_alive(World)
              /\ procs[_server].port = _port /\ procs[_server].out = "ok"
              /\ _url = LocalUrl(_port)
              /\ _port \in Ports \ occupied
              /\ \A q \in _MIN_PORT .. (_port - 1) : q \in occupied
        /\ (pc = "failed" /\ LastSpawnOut = "bind_fail") =>
              /\ _port = _MAX_PORT
              /\ _server = NoServer

C5_Witness ==
    /\ last = "SearchStep" /\ op = "init" /\ pc = "languages"
    /\ occupied = {_MIN_PORT}
    /\ _port = _MIN_PORT + 1
    /\ _url = LocalUrl(_MIN_PORT + 1)
    /\ _server_is_alive(World)

(* C6: a start attempt in which the server reports another port than the   *)
(* requested one makes the search go on with the next port; construction    *)
(* fails only at the end of the port range.                                 *)
C6_MismatchAdvances ==
    (last = "SearchStep" /\ op = "init" /\ LastSpawnOut = "mismatch"
        /\ log[Len(log)].e = "spawn") =>
            \/ pc = "search" /\ _port = log[Len(log)].port + 1
            \/ pc = "failed" /\ _port = _MAX_PORT

(* C7: with the runtime or the archive missing, the first start attempt of *)
(* a construction ends it with JavaError resp. PathError, on the first port. *)
C7_LocatorErrorFatal ==
    (last = "SearchStep" /\ op = "init" /\ install \in {"no_java", "no_jar"}) =>
        /\ pc = "failed"
        /\ ret.status = "raised"
        /\ ret.exc.type = (IF install = "no_java" THEN "JavaError" ELSE "PathError")
        /\ _port = _MIN_PORT

(* C8: terminate on a client whose handle is cleared returns without       *)
(* raising: a query of a local client whose failure handler calls terminate *)
(* with the handle cleared (after close, or after a failed start) does not  *)
(* end in the AttributeError of a call on None.                             *)
C8_TerminateIdempotent ==
    (QueryEnded /\ ~_remote) => ret.exc.type # "AttributeError"

Registered == {RUNNING_SERVER_PROCESSES[i] : i \in DOMAIN RUNNING_SERVER_PROCESSES}

(* C9: every process ever spawned is in the registry, and once the exit    *)
(* hook has run none of them is running.                                    *)
C9_RegistryComplete ==
    /\ DOMAIN procs \subseteq Registered
    /\ pc = "exited" => \A pid \in DOMAIN procs : procs[pid].state # "running"

C9_Witness ==
    /\ pc = "exited"
    /\ Len(procs) >= 2
    /\ _server # NoServer

(* C10: a remote client never spawns or terminates a process and holds no  *)
(* handle; its calls only send requests, at most as many as the budget, and *)
(* end in a result, a LanguageToolError or a rejected tag.                  *)
C10_RemoteNeverManages ==
    _remote =>
        /\ procs = <<>>
        /\ RUNNING_SERVER_PROCESSES = <<>>
        /\ _server = NoServer
        /\ \A i \in DOMAIN log : log[i].e = "request"
        /\ Cardinality(Requests(log)) <= budget
        /\ ret.exc.type \in {"none", "LanguageToolError", "ValueError"}

C10_Witness ==
    /\ _remote /\ last = "check"
    /\ Len(log) = 2
    /\ log[1].out = "transport" /\ log[2].out = "ok"
    /\ ret.status = "returned"

(* The languages query of the step just taken was answered. *)
LanguagesAnswered ==
    /\ last = "LangQuery"
    /\ log # <<>>
    /\ log[Len(log)].e = "request"
    /\ log[Len(log)].out = "ok"

(* C15: a language tag that is not in the set the server reports is        *)
(* rejected with a validation error: the construction raises and yields no  *)
(* client, and a usable client never holds such a tag.                      *)
C15_UnsupportedLanguageRejected ==
    /\ pc = "idle" => _language \in Languages
    /\ (LanguagesAnswered /\ arg \notin Languages) =>
          /\ ret.status = "raised"
          /\ ret.exc.type = "ValueError"
          /\ _language # arg
          /\ op = "init" => pc = "failed"

C15_Witness ==
    /\ LanguagesAnswered
    /\ op = "init"
    /\ arg = "xx-ZZ"
    /\ pc = "failed"
    /\ ret.exc.type = "ValueError"

(* C16: the languages list is fetched once and cached: over the            *)
(* construction and the later language assignments of one client, at most   *)
(* one languages query is sent.                                             *)
C16_LanguagesFetchedOnce == languages_requests <= 1

(* The largest number of start attempts of one search. *)
MaxAttempts == _MAX_PORT - _MIN_PORT + 1

Attempted == procs[Len(procs)]
StartAttempted == last = "SearchStep" /\ install = "ok"
StartSucceeded == pc # "search" /\ ret.status # "raised"
StartRaised(type, msg) ==
    /\ ret.status = "raised"
    /\ ret.exc.type = type
    /\ ret.exc.msg = msg

(* C18 as stated: a start attempt succeeds only on a stdout port line      *)
(* naming the requested port, fails as a mismatch on another port, and      *)
(* fails with an error built from stderr whenever stdout closes without a   *)
(* port line.                                                               *)
C18_StderrErrorOnClosedStdout ==
    StartAttempted =>
        /\ StartSucceeded => Attempted.out = "ok"
        /\ Attempted.out = "mismatch" =>
              StartRaised("LanguageToolError", "requested port, but got")
        /\ Attempted.out \in {"bind_fail", "no_port", "stderr_other"} =>
              StartRaised("LanguageToolError", "err_msg")

(* C18, amended: a start attempt succeeds, with the handle set and the     *)
(* drain thread started, exactly when stdout reported the requested port;   *)
(* another port on stdout fails as a mismatch; a stdout closed without a    *)
(* port line fails with the stderr text unless stderr names the requested   *)
(* port, in which case the process is terminated, the handle cleared and    *)
(* the attempt fails with the fixed ServerError that drives the port search.*)
C18_StartContract ==
    StartAttempted =>
        /\ StartSucceeded <=> Attempted.out = "ok"
        /\ StartSucceeded => (_server = Len(procs) /\ _consumer_thread = Len(procs))
        /\ Attempted.out = "mismatch" =>
              StartRaised("LanguageToolError", "requested port, but got")
        /\ Attempted.out \in {"no_port", "stderr_other"} =>
              StartRaised("LanguageToolError", "err_msg")
        /\ Attempted.out = "bind_fail" =>
              /\ Attempted.state = "exited"
              /\ _server = NoServer
              /\ IF pc = "search"
                 THEN caught = Exc("ServerError", "Server running", "none", 0)
                 ELSE StartRaised("ServerError", "Server running")

C18_Witness ==
    /\ StartAttempted
    /\ Attempted.out = "bind_fail"
    /\ pc = "search"
    /\ IsServerError(caught)
    /\ attempts = 2

(* A call from an idle client has just ended; its log holds the call's     *)
(* events only, so every spawn in it is a restart.                          *)
CallEnded == last \in {"check", "query"}
FailedRestarts == {i \in Spawns(log) : log[i].out # "ok"}
WrappedTransportError(e) == e.type = "LanguageToolError" /\ e.cause = "IOError"

(* C19 as stated: when the restart after a transport failure fails to      *)
(* bind, the check still sends its retry, and the error it ends with is the *)
(* wrapped transport error.                                                 *)
C19_RetryAfterFailedRestart ==
    (last = "check" /\ ~_remote) =>
        \A i \in FailedRestarts :
            (log[i].out = "bind_fail" /\ log[i - 2].id = 1) =>
                /\ \E j \in Requests(log) : j > i
                /\ ret.status = "raised"
                /\ WrappedTransportError(ret.exc)

(* C19, amended: a restart that fails ends the call at once: no request    *)
(* follows it, and the call raises the restart's own exception (the fixed   *)
(* ServerError when the restarted server fails to bind), never the wrapped  *)
(* transport error.                                                         *)
C19_FailedRestartSurfaces ==
    (CallEnded /\ ~_remote) =>
        \A i \in FailedRestarts :
            /\ \A j \in Requests(log) \cup Spawns(log) : j <= i
            /\ ret.status = "raised"
            /\ ~WrappedTransportError(ret.exc)
            /\ ret.exc.type = (IF log[i].out = "bind_fail" THEN "ServerError"
                               ELSE "LanguageToolError")
            /\ ret.exc.cause = "none"

C19_Witness ==
    /\ last = "check" /\ ~_remote
    /\ Len(log) = 4
    /\ log[1].e = "request" /\ log[1].out = "transport"
    /\ log[2].e = "terminate"
    /\ log[3].e = "spawn" /\ log[3].out = "bind_fail"
    /\ log[4].e = "terminate"
    /\ ret.status = "raised"
    /\ ret.exc.type = "ServerError"

(* The client holds a handle and the process behind it has not exited. *)
HoldsRunningProcess == _server # NoServer /\ procs[_server].state = "running"

(* C20 as stated, for a client whose construction succeeded: after close  *)
(* the liveness check is false and the handle is cleared.                   *)
C20_CloseClearsHandle ==
    (last = "Close" /\ pc = "idle") => (~_server_is_alive(World) /\ _server = NoServer)

(* C20, amended: the liveness check is true exactly when the client holds  *)
(* a handle whose process has not exited; after close it is false, and the  *)
(* handle is cleared when the process was still running at the close, while *)
(* a handle to a process that had already exited is kept; a close of a      *)
(* client that is not live (a second close among them) terminates nothing,  *)
(* changes nothing and raises nothing.                                      *)
C20_CloseIdempotent ==
    /\ [](/\ _server_is_alive(World) <=> HoldsRunningProcess
          /\ last = "Close" => (~HoldsRunningProcess /\ ret.status = "returned"))
    /\ [][last' = "Close" =>
             IF HoldsRunningProcess
             THEN /\ _server' = NoServer
                  /\ procs'[_server].state = "exited"
                  /\ Cardinality(Terminations(log')) = 1
             ELSE /\ _server' = _server
                  /\ procs' = procs
                  /\ log' = <<>>
                  /\ ret'.status = "returned"]_vars

C20_Witness ==
    /\ last = "Close"
    /\ calls = 2
    /\ pc = "idle"
    /\ Len(procs) = 1
    /\ procs[1].out = "ok"
    /\ _server = NoServer
    /\ log = <<>>
    /\ ret.status = "returned"

(* The processes of this client that have not exited. *)
Alive == {pid \in DOMAIN procs : procs[pid].state = "running"}

(* C21: at most one server process spawned by the client is alive, and it  *)
(* is the one the handle names; a step that spawns leaves every earlier     *)
(* process exited, and within one call every spawn but the last is followed *)
(* by the termination of the process it spawned.                            *)
C21_AtMostOneAlive ==
    /\ [](/\ Cardinality(Alive) <= 1
          /\ Alive \subseteq {_server}
          /\ CallEnded =>
                \A i, j \in Spawns(log) :
                    i < j => \E t \in Terminations(log) :
                                i < t /\ t < j /\ log[t].id = log[i].id)
    /\ [][Len(procs') > Len(procs) => Alive' \subseteq {Len(procs')}]_vars

C21_Witness ==
    /\ last = "check"
    /\ Cardinality(Spawns(log)) = 2
    /\ Len(procs) = 3
    /\ Alive = {3}
    /\ _server = 3

(* C22: after a start attempt that raised, the process the attempt spawned *)
(* has been terminated, the handle is cleared and the liveness check is     *)
(* false.                                                                   *)
C22_FailedStartCleansUp ==
    (StartAttempted /\ (ret.status = "raised" \/ pc = "search")) =>
        /\ Attempted.state = "exited"
        /\ _server = NoServer
        /\ ~_server_is_alive(World)

(* C23: the base URL of a local client names the selected port whenever a  *)
(* start is attempted and whenever no search is under way; a call leaves    *)
(* the port and the URL as they were, and every request and every restart   *)
(* of the call goes to that port.                                           *)
C23_UrlNamesPort ==
    /\ []((~_remote /\ _url # NoUrl) =>
            /\ _url.host = "local"
            /\ (pc # "search" \/ attempts = 0) => _url.port = _port
            /\ StartAttempted => _url.port = Attempted.port
            /\ CallEnded => \A i \in DOMAIN log : log[i].port = _port)
    /\ [][(~_remote' /\ last' \in {"check", "query", "LangQuery"}) =>
             (_port' = _port /\ _url' = _url)]_vars

C23_Witness ==
    /\ last = "check" /\ ~_remote
    /\ _port = _MIN_PORT + 1
    /\ _url.port = _MIN_PORT + 1
    /\ Len(log) = 4
    /\ log[1].e = "request" /\ log[1].port = _port
    /\ log[3].e = "spawn" /\ log[3].port = _port
    /\ log[4].e = "request" /\ log[4].port = _port

(* C24: with check coroutines in flight on one local client, the handler  *)
(* of a coroutine does not undo the restart of another: it terminates a     *)
(* server that another coroutine started, and that came up on the requested *)
(* port, only when its own failed request had been sent to that server.     *)
C24_RestartNotUndone ==
    \A i, j \in Tasks :
        i # j => \A k \in tasks[i].killed :
                    (k.pid \in tasks[j].spawned /\ procs[k.pid].out = "ok")
                        => k.target = k.pid

---------------------------------------------------------------------------
(* Properties of utils.correct, checked under SpecCorrect.                 *)

(* Every match has a replacement, lies inside the text, and the matches    *)
(* come in order without overlapping.                                       *)
InOrderInText ==
    /\ \A n \in 1 .. Len(matches) :
          /\ HasReplacement(matches[n])
          /\ matches[n].offset + matches[n].errorLength <= Len(text)
    /\ \A n \in 1 .. Len(matches) - 1 :
          matches[n].offset + matches[n].errorLength <= matches[n + 1].offset

(* The text from position pos on, each span from match n on replaced by    *)
(* the first replacement of its match.                                      *)
RECURSIVE Substituted(_, _)
Substituted(n, pos) ==
    IF n > Len(matches) THEN SubSeq(text, pos + 1, Len(text))
    ELSE SubSeq(text, pos + 1, matches[n].offset)
            \o matches[n].replacements[1]
            \o Substituted(n + 1, matches[n].offset + matches[n].errorLength)

(* C11: on in-order, non-overlapping, in-text matches that all have a      *)
(* replacement, correct returns the text with each span                     *)
(* [offset, offset + errorLength) replaced by the first replacement of its  *)
(* match and every other character unchanged.                               *)
C11_EachSpanReplaced ==
    (result.done /\ InOrderInText) => result.text = Substituted(1, 0)

C11_Witness ==
    /\ result.done
    /\ InOrderInText
    /\ Len(matches) = 2
    /\ matches[1].errorLength = 1
    /\ Len(matches[1].replacements[1]) = 2
    /\ matches[2].errorLength = 1
    /\ result.text = Substituted(1, 0)
    /\ result.text # text

(* The text with only the first match's substitution applied. *)
OnlyFirst ==
    LET lo == SliceIndex(matches[1].offset, Len(text))
        hi == SliceIndex(matches[1].offset + matches[1].errorLength, Len(text)) IN
    SubSeq(text, 1, lo) \o matches[1].replacements[1] \o SubSeq(text, hi + 1, Len(text))

(* Two matches with replacements, and after the first substitution the     *)
(* text at the second match's recomputed span is not the text captured for  *)
(* it at the start.                                                         *)
SecondIsStale ==
    /\ Len(matches) = 2
    /\ HasReplacement(matches[1])
    /\ HasReplacement(matches[2])
    /\ LET shift == Len(matches[1].replacements[1])
                       - Len(Slice(text, matches[1].offset,
                                   matches[1].offset + matches[1].errorLength))
           frompos == shift + matches[2].offset
           topos == shift + matches[2].offset + matches[2].errorLength IN
       Slice(OnlyFirst, frompos, topos)
          # Slice(text, matches[2].offset, matches[2].offset + matches[2].errorLength)

(* C12: with two matches that have replacements, when the text at the      *)
(* second match's recomputed span differs from the text captured for it,    *)
(* the second match is skipped and the result is the text with only the     *)
(* first substitution applied.                                              *)
C12_StaleMatchSkipped ==
    (result.done /\ SecondIsStale) => result.text = OnlyFirst

C12_Witness ==
    /\ result.done
    /\ SecondIsStale
    /\ result.text = OnlyFirst
    /\ result.text # text
    /\ matches[2].errorLength > 0

(* C13: matches without a replacement have no effect: the result is that   *)
(* of correct on the matches that have one, and the text itself when no     *)
(* match has one.                                                           *)
C13_NoReplacementNoEffect ==
    result.done =>
        /\ result.text = correct(text, WithReplacements(matches))
        /\ (WithReplacements(matches) = <<>> => result.text = text)

C13_Witness ==
    /\ result.done
    /\ Len(matches) = 2
    /\ ~HasReplacement(matches[1])
    /\ HasReplacement(matches[2])
    /\ matches[1].errorLength # matches[2].errorLength
    /\ result.text = correct(text, <<matches[2]>>)
    /\ result.text # text

(* C14: correct with an empty list of matches returns the text unchanged.  *)
C14_NoMatchesIdentity ==
    (result.done /\ matches = <<>>) => result.text = text

C14_Witness ==
    /\ result.done
    /\ matches = <<>>
    /\ Len(text) >= 2
    /\ result.text = text

====
